---------------------------- MODULE Spec2Model ----------------------------
(***************************************************************************)
(* Model of src/src/process.rs: the process control block of the MLFQ      *)
(* simulator and its dispatch operation Process::run.                      *)
(*                                                                         *)
(* One Process object is modelled.  Its fields are the variables of the    *)
(* same names.  Every public operation is one action; a panic ends the     *)
(* execution (no action is enabled afterwards) and leaves the fields as    *)
(* the panicking call left them.                                           *)
(***************************************************************************)
EXTENDS Integers, Sequences, FiniteSets, TLC

(***************************************************************************)
(* Bounds of the model.                                                    *)
(***************************************************************************)
MaxIoInterval == 2      \* io_interval in 0..MaxIoInterval
MaxIoLength   == 1      \* io_length in 0..MaxIoLength
MaxWorkload   == 3      \* workload in 0..MaxWorkload
MaxArrival    == 1      \* arrival_time in 0..MaxArrival
MaxQuantum    == 2      \* quantum argument in 0..MaxQuantum
MaxTime       == 2      \* at argument in 0..MaxTime
MaxAllotment  == 2      \* set_allotment argument in 0..MaxAllotment

\* The pid and the queue argument are only printed.
Pids   == {1}
Queues == {0}

\* u32::MAX, scaled to the word width of the model.  All u32 arithmetic of
\* the source is done modulo U32_MAX + 1.
U32_MAX       == 63

VARIABLES
    pid, io_interval, io_length, workload, work_done, start_time,
    next_schedule_time, turnaround_time, response_time, allotment, state,
    overflow_checks,   \* build profile: TRUE = arithmetic overflow panics
    panic,             \* "none", or the check that made a call panic;
                       \* after a panic the execution is over
    call,              \* the most recent call and its arguments
    ret,               \* << >> if that call returned nothing, else <<value>>
    out,               \* the lines that call printed
    pre,               \* the mutable fields as they were before that call
    total_consumed,    \* sum of the values returned by run so far
    honoured           \* every call of run so far was made at or after the
                       \* next_schedule_time the process had at that moment

fields == <<pid, io_interval, io_length, workload, work_done, start_time,
            next_schedule_time, turnaround_time, response_time, allotment,
            state>>

vars == <<pid, io_interval, io_length, workload, work_done, start_time,
          next_schedule_time, turnaround_time, response_time, allotment,
          state, overflow_checks, panic, call, ret, out, pre,
          total_consumed, honoured>>

ProcessState == {"Ready", "Running", "Blocked", "Finished"}

(***************************************************************************)
(* u32 arithmetic.  An operation whose mathematical result is outside      *)
(* 0..U32_MAX panics when overflow checks are on and wraps otherwise.      *)
(***************************************************************************)
Overflows(x) == x < 0 \/ x > U32_MAX

Wrap(x) == x % (U32_MAX + 1)

(***************************************************************************)
(* The Process object as a record, and Process::new.                       *)
(***************************************************************************)
Process ==
    [pid |-> pid, io_interval |-> io_interval, io_length |-> io_length,
     workload |-> workload, work_done |-> work_done,
     start_time |-> start_time, next_schedule_time |-> next_schedule_time,
     turnaround_time |-> turnaround_time, response_time |-> response_time,
     allotment |-> allotment, state |-> state]

new(p, interval, length, load, arrival_time) ==
    [pid |-> p, io_interval |-> interval, io_length |-> length,
     workload |-> load, work_done |-> 0,
     start_time |-> arrival_time, next_schedule_time |-> arrival_time,
     turnaround_time |-> 0, response_time |-> 0,
     allotment |-> 0, state |-> "Ready"]

Mutable(self) ==
    [work_done |-> self.work_done,
     next_schedule_time |-> self.next_schedule_time,
     turnaround_time |-> self.turnaround_time,
     response_time |-> self.response_time,
     allotment |-> self.allotment, state |-> self.state]

(***************************************************************************)
(* Queries.                                                                *)
(***************************************************************************)
\* Mutant of is_blocked: the Finished arm answers true as well.
is_blocked_or_finished(self) == self.state \in {"Blocked", "Finished"}

is_blocked(self) == self.state = "Blocked"

is_finished(self) == self.state = "Finished"

(***************************************************************************)
(* Trace lines.  A line is [ts, queue, pid, kind, run, io]; run and io are *)
(* 0 in the lines that do not print them.                                  *)
(***************************************************************************)
Line(ts, queue, p, kind, run_time, io) ==
    [ts |-> ts, queue |-> queue, pid |-> p, kind |-> kind,
     run |-> run_time, io |-> io]

\* The result of a (partial) execution of a call: the object, the lines
\* printed, the value returned and whether the call panicked.
Panic(self, lines, check) ==
    [self |-> self, out |-> lines, ret |-> << >>, panic |-> check]

Return(self, lines, value) ==
    [self |-> self, out |-> lines, ret |-> <<value>>, panic |-> "none"]

(***************************************************************************)
(* Process::run_from_running, the core arithmetic.                         *)
(***************************************************************************)
\* Mutant of work_left: the work already done is not subtracted.
work_left_total(self) == self.workload

work_left(self) == self.workload - self.work_done

\* Mutant of work_before_io: the distance to the next I/O is taken to be a
\* full interval, whatever work_done is.
work_before_io_full_interval(self) == self.io_interval

work_before_io(self) ==
    self.io_interval - (self.work_done % self.io_interval)

\* Mutant of Branch: the process blocks also when the I/O boundary is the
\* end of the workload (<= for <).
Branch_blocks_at_completion(self, quantum) ==
    IF self.io_interval > 0
    THEN IF work_before_io(self) <= work_left(self)
            /\ work_before_io(self) <= quantum
         THEN "io"
         ELSE IF work_left(self) <= quantum THEN "finish" ELSE "quantum"
    ELSE IF work_left(self) <= quantum THEN "finish" ELSE "quantum"

\* Mutant of Branch: without I/O the process finishes only when the work
\* left is strictly less than the quantum (< for <=).
Branch_finish_strict(self, quantum) ==
    IF self.io_interval > 0
    THEN IF work_before_io(self) < work_left(self)
            /\ work_before_io(self) <= quantum
         THEN "io"
         ELSE IF work_left(self) <= quantum THEN "finish" ELSE "quantum"
    ELSE IF work_left(self) < quantum THEN "finish" ELSE "quantum"

\* Which branch of the if/else chain is taken.
Branch(self, quantum) ==
    IF self.io_interval > 0
    THEN IF work_before_io(self) < work_left(self)
            /\ work_before_io(self) <= quantum
         THEN "io"
         ELSE IF work_left(self) <= quantum THEN "finish" ELSE "quantum"
    ELSE IF work_left(self) <= quantum THEN "finish" ELSE "quantum"

\* Mutant of BlockForIo: the I/O is taken to start when the burst ends.
BlockForIo_after_burst(self, at) ==
    LET run_time == work_before_io(self)
        s1 == [self EXCEPT !.work_done = @ + run_time]
        nst == at + run_time + self.io_length
    IN  IF Overflows(nst) /\ overflow_checks
        THEN [self |-> s1, run_time |-> run_time, panic |-> "overflow"]
        ELSE [self |-> [s1 EXCEPT !.next_schedule_time = Wrap(nst),
                                  !.state = "Blocked"],
              run_time |-> run_time, panic |-> "none"]

\* The process blocks for I/O before the quantum is up.
BlockForIo(self, at) ==
    LET run_time == work_before_io(self)
        s1 == [self EXCEPT !.work_done = @ + run_time]
        nst == at + self.io_length
    IN  IF Overflows(nst) /\ overflow_checks
        THEN [self |-> s1, run_time |-> run_time, panic |-> "overflow"]
        ELSE [self |-> [s1 EXCEPT !.next_schedule_time = Wrap(nst),
                                  !.state = "Blocked"],
              run_time |-> run_time, panic |-> "none"]

\* Mutant of Finish: the run time of the last burst is left out of the
\* turnaround time.
Finish_without_run_time(self, at) ==
    LET run_time == self.workload - self.work_done
        s1 == [self EXCEPT !.work_done = @ + run_time,
                           !.next_schedule_time = U32_MAX]
        since == at - self.start_time
        s2 == [s1 EXCEPT !.turnaround_time = Wrap(since),
                         !.state = "Finished"]
    IN  IF Overflows(since) /\ overflow_checks
        THEN [self |-> s1, run_time |-> run_time, panic |-> "overflow"]
        ELSE [self |-> s2, run_time |-> run_time,
              panic |-> IF s2.workload = s2.work_done THEN "none"
                        ELSE "workload == work_done"]

\* The process finishes within the quantum.
Finish(self, at) ==
    LET run_time == work_left(self)
        s1 == [self EXCEPT !.work_done = @ + run_time,
                           !.next_schedule_time = U32_MAX]
        since == at - self.start_time
        tt == Wrap(since) + run_time
        s2 == [s1 EXCEPT !.turnaround_time = Wrap(tt),
                         !.state = "Finished"]
    IN  IF (Overflows(since) \/ Overflows(tt)) /\ overflow_checks
        THEN [self |-> s1, run_time |-> run_time, panic |-> "overflow"]
        ELSE [self |-> s2, run_time |-> run_time,
              panic |-> IF s2.workload = s2.work_done THEN "none"
                        ELSE "workload == work_done"]

\* Mutant of UseQuantum: next_schedule_time is the time of the dispatch.
UseQuantum_resumes_at_dispatch(self, quantum, at) ==
    LET run_time == quantum
        s1 == [self EXCEPT !.work_done = @ + run_time]
    IN  [self |-> [s1 EXCEPT !.next_schedule_time = at],
         run_time |-> run_time, panic |-> "none"]

\* Mutant of UseQuantum: the preempted process goes back to Ready.
UseQuantum_back_to_ready(self, quantum, at) ==
    LET run_time == quantum
        s1 == [self EXCEPT !.work_done = @ + run_time]
        nst == at + quantum
    IN  IF Overflows(nst) /\ overflow_checks
        THEN [self |-> s1, run_time |-> run_time, panic |-> "overflow"]
        ELSE [self |-> [s1 EXCEPT !.next_schedule_time = Wrap(nst),
                                  !.state = "Ready"],
              run_time |-> run_time, panic |-> "none"]

\* The quantum is used up.
UseQuantum(self, quantum, at) ==
    LET run_time == quantum
        s1 == [self EXCEPT !.work_done = @ + run_time]
        nst == at + quantum
    IN  IF Overflows(nst) /\ overflow_checks
        THEN [self |-> s1, run_time |-> run_time, panic |-> "overflow"]
        ELSE [self |-> [s1 EXCEPT !.next_schedule_time = Wrap(nst)],
              run_time |-> run_time, panic |-> "none"]

Burst(self, quantum, at) ==
    CASE Branch(self, quantum) = "io"      -> BlockForIo(self, at)
      [] Branch(self, quantum) = "finish"  -> Finish(self, at)
      [] Branch(self, quantum) = "quantum" -> UseQuantum(self, quantum, at)

\* Mutant of update_allotment: the subtraction is not guarded and wraps.
update_allotment_wrapping(a, run_time) == Wrap(a - run_time)

update_allotment(a, run_time) ==
    IF run_time < a THEN a - run_time ELSE 0

\* The status line printed at the end of run_from_running.
status_line(self, ts, queue, run_time) ==
    CASE self.state = "Running" ->
            Line(ts, queue, self.pid, "ran", run_time, 0)
      [] self.state = "Blocked" ->
            Line(ts, queue, self.pid, "ran_blocked", run_time,
                 self.io_length)
      [] self.state = "Finished" ->
            Line(ts, queue, self.pid, "ran_finished", run_time, 0)

\* Mutant of entry_assertions: the allotment is not asserted.
entry_assertions_state_only(self) ==
    IF self.state # "Running" THEN "state == Running" ELSE "none"

\* The two assertions at the head of run_from_running: the one that fails
\* first, "none" if both hold.
entry_assertions(self) ==
    IF self.state # "Running" THEN "state == Running"
    ELSE IF ~(self.allotment > 0) THEN "allotment > 0"
    ELSE "none"

\* Mutant of run_from_running: the quantum is returned instead of the run
\* time.
run_from_running_returns_quantum(self, quantum, at, queue, lines) ==
    IF entry_assertions(self) # "none"
    THEN Panic(self, lines, entry_assertions(self))
    ELSE LET b == Burst(self, quantum, at)
             s == [b.self EXCEPT
                     !.allotment = update_allotment(@, b.run_time)]
             ts == at + b.run_time
         IN  IF b.panic # "none" THEN Panic(b.self, lines, b.panic)
             ELSE IF ~(b.run_time > 0)
                  THEN Panic(b.self, lines, "run_time > 0")
             ELSE IF Overflows(ts) /\ overflow_checks
                  THEN Panic(s, lines, "overflow")
             ELSE Return(s,
                         Append(lines,
                                status_line(s, Wrap(ts), queue, b.run_time)),
                         quantum)

run_from_running(self, quantum, at, queue, lines) ==
    IF entry_assertions(self) # "none"
    THEN Panic(self, lines, entry_assertions(self))
    ELSE LET b == Burst(self, quantum, at)
             s == [b.self EXCEPT
                     !.allotment = update_allotment(@, b.run_time)]
             ts == at + b.run_time
         IN  IF b.panic # "none" THEN Panic(b.self, lines, b.panic)
             ELSE IF ~(b.run_time > 0)
                  THEN Panic(b.self, lines, "run_time > 0")
             ELSE IF Overflows(ts) /\ overflow_checks
                  THEN Panic(s, lines, "overflow")
             ELSE IF s.state \notin {"Running", "Blocked", "Finished"}
                  THEN Panic(s, lines, "invalid state")
             ELSE Return(s,
                         Append(lines,
                                status_line(s, Wrap(ts), queue, b.run_time)),
                         b.run_time)

run_from_ready(self, quantum, at, queue) ==
    run_from_running([self EXCEPT !.state = "Running"], quantum, at, queue,
                     <<Line(at, queue, self.pid, "start", 0, 0)>>)

\* Mutant of run_from_blocked: the "resume" line is not printed.
run_from_blocked_silent(self, quantum, at, queue) ==
    run_from_running([self EXCEPT !.state = "Running"], quantum, at, queue,
                     << >>)

run_from_blocked(self, quantum, at, queue) ==
    run_from_running([self EXCEPT !.state = "Running"], quantum, at, queue,
                     <<Line(at, queue, self.pid, "resume", 0, 0)>>)

(***************************************************************************)
(* Process::run.                                                           *)
(***************************************************************************)
\* "record the response time": the object after the first statement of
\* run, or a panic when its assertion fails.
record_response_time(self, at) ==
    IF self.response_time = 0
    THEN IF at >= self.start_time
         THEN [self |-> [self EXCEPT !.response_time = at - self.start_time],
               panic |-> "none"]
         ELSE [self |-> self, panic |-> "at >= start_time"]
    ELSE [self |-> self, panic |-> "none"]

\* Mutant of run: a Finished process is not rejected, 0 is returned.
run_finished_returns(self, quantum, at, queue) ==
    LET r == record_response_time(self, at)
    IN  IF r.panic # "none" THEN Panic(r.self, << >>, r.panic)
        ELSE CASE r.self.state = "Ready" ->
                    run_from_ready(r.self, quantum, at, queue)
               [] r.self.state = "Running" ->
                    run_from_running(r.self, quantum, at, queue, << >>)
               [] r.self.state = "Blocked" ->
                    run_from_blocked(r.self, quantum, at, queue)
               [] r.self.state = "Finished" ->
                    Return(r.self, << >>, 0)

\* Mutant of run: a Finished process is rejected before the response time
\* is recorded.
run_checks_finished_first(self, quantum, at, queue) ==
    IF self.state = "Finished" THEN Panic(self, << >>, "finished")
    ELSE LET r == record_response_time(self, at)
         IN  IF r.panic # "none" THEN Panic(r.self, << >>, r.panic)
             ELSE CASE r.self.state = "Ready" ->
                         run_from_ready(r.self, quantum, at, queue)
                    [] r.self.state = "Running" ->
                         run_from_running(r.self, quantum, at, queue, << >>)
                    [] r.self.state = "Blocked" ->
                         run_from_blocked(r.self, quantum, at, queue)

run(self, quantum, at, queue) ==
    LET r == record_response_time(self, at)
    IN  IF r.panic # "none" THEN Panic(r.self, << >>, r.panic)
        ELSE CASE r.self.state = "Ready" ->
                    run_from_ready(r.self, quantum, at, queue)
               [] r.self.state = "Running" ->
                    run_from_running(r.self, quantum, at, queue, << >>)
               [] r.self.state = "Blocked" ->
                    run_from_blocked(r.self, quantum, at, queue)
               [] r.self.state = "Finished" ->
                    Panic(r.self, << >>, "finished")

(***************************************************************************)
(* The state machine.                                                      *)
(***************************************************************************)
panicked == panic # "none"

Call(op, quantum, at, queue, value) ==
    [op |-> op, quantum |-> quantum, at |-> at, queue |-> queue,
     value |-> value]

\* The fields of the object become those of the record s.
Becomes(s) ==
    /\ pid' = s.pid
    /\ io_interval' = s.io_interval
    /\ io_length' = s.io_length
    /\ workload' = s.workload
    /\ work_done' = s.work_done
    /\ start_time' = s.start_time
    /\ next_schedule_time' = s.next_schedule_time
    /\ turnaround_time' = s.turnaround_time
    /\ response_time' = s.response_time
    /\ allotment' = s.allotment
    /\ state' = s.state

Init ==
    /\ overflow_checks \in BOOLEAN
    /\ \E p \in Pids, interval \in 0..MaxIoInterval,
          length \in 0..MaxIoLength, load \in 0..MaxWorkload,
          arrival_time \in 0..MaxArrival :
          LET s == new(p, interval, length, load, arrival_time)
          IN  /\ pid = s.pid
              /\ io_interval = s.io_interval
              /\ io_length = s.io_length
              /\ workload = s.workload
              /\ work_done = s.work_done
              /\ start_time = s.start_time
              /\ next_schedule_time = s.next_schedule_time
              /\ turnaround_time = s.turnaround_time
              /\ response_time = s.response_time
              /\ allotment = s.allotment
              /\ state = s.state
              /\ pre = Mutable(s)
    /\ panic = "none"
    /\ call = Call("new", 0, 0, 0, 0)
    /\ ret = << >>
    /\ out = << >>
    /\ total_consumed = 0
    /\ honoured = TRUE

Run(quantum, at, queue) ==
    /\ ~panicked
    /\ LET r == run(Process, quantum, at, queue)
       IN  /\ Becomes(r.self)
           /\ panic' = r.panic
           /\ ret' = r.ret
           /\ out' = r.out
           /\ total_consumed' =
                 IF r.panic # "none" THEN total_consumed
                 ELSE total_consumed + r.ret[1]
    /\ call' = Call("run", quantum, at, queue, 0)
    /\ pre' = Mutable(Process)
    /\ honoured' = (honoured /\ at >= next_schedule_time)
    /\ UNCHANGED overflow_checks

SetAllotment(value) ==
    /\ ~panicked
    /\ allotment' = value
    /\ call' = Call("set_allotment", 0, 0, 0, value)
    /\ pre' = Mutable(Process)
    /\ ret' = << >>
    /\ out' = << >>
    /\ UNCHANGED <<pid, io_interval, io_length, workload, work_done,
                   start_time, next_schedule_time, turnaround_time,
                   response_time, state, overflow_checks, panic,
                   total_consumed, honoured>>

IsBlocked ==
    /\ ~panicked
    /\ ret' = <<is_blocked(Process)>>
    /\ call' = Call("is_blocked", 0, 0, 0, 0)
    /\ pre' = Mutable(Process)
    /\ out' = << >>
    /\ UNCHANGED <<fields, overflow_checks, panic, total_consumed,
                   honoured>>

IsFinished ==
    /\ ~panicked
    /\ ret' = <<is_finished(Process)>>
    /\ call' = Call("is_finished", 0, 0, 0, 0)
    /\ pre' = Mutable(Process)
    /\ out' = << >>
    /\ UNCHANGED <<fields, overflow_checks, panic, total_consumed,
                   honoured>>

Next ==
    \/ \E quantum \in 0..MaxQuantum, at \in 0..MaxTime,
          queue \in Queues : Run(quantum, at, queue)
    \/ \E value \in 0..MaxAllotment : SetAllotment(value)
    \/ IsBlocked
    \/ IsFinished

Spec == Init /\ [][Next]_vars

TypeOK ==
    /\ state \in ProcessState
    /\ work_done \in 0..U32_MAX
    /\ next_schedule_time \in 0..U32_MAX
    /\ turnaround_time \in 0..U32_MAX
    /\ response_time \in 0..U32_MAX
    /\ allotment \in 0..U32_MAX

(***************************************************************************)
(* Observations used by the properties.                                    *)
(***************************************************************************)
\* The most recent call is a dispatch, and it returned.
Dispatched == call.op = "run"

Succeeded == call.op = "run" /\ panic = "none"

\* The object as it was before the most recent call.
PreProcess ==
    [Process EXCEPT !.work_done = pre.work_done,
                    !.next_schedule_time = pre.next_schedule_time,
                    !.turnaround_time = pre.turnaround_time,
                    !.response_time = pre.response_time,
                    !.allotment = pre.allotment,
                    !.state = pre.state]

\* CPU time the most recent call added to work_done.
Consumed == work_done - pre.work_done

Max(a, b) == IF a >= b THEN a ELSE b

(***************************************************************************)
(* C1.  When a sequence of successful dispatches (no call has panicked)    *)
(* ends with the process Finished, the values returned by run add up to    *)
(* workload exactly.                                                       *)
(***************************************************************************)
C1_ConsumedSumsToWorkload ==
    (state = "Finished" /\ panic = "none") => total_consumed = workload

\* A process finished by more than one dispatch, the last one cut short by
\* the end of the workload.
C1_Witness ==
    /\ Succeeded
    /\ state = "Finished"
    /\ pre.work_done > 0
    /\ ret[1] < call.quantum
    /\ total_consumed = workload

(***************************************************************************)
(* C2.  response_time is assigned exactly once: the first dispatch, at a   *)
(* time t1 >= start_time, sets it to t1 - start_time, and no later         *)
(* dispatch (one of a process that has left Ready, at a time >= start_time *)
(* and returning normally) changes it.                                     *)
(***************************************************************************)
C2_ResponseTimeAssignedOnce ==
    /\ []((Dispatched /\ pre.state = "Ready" /\ call.at >= start_time)
             => response_time = call.at - start_time)
    /\ [][(/\ state # "Ready"
           /\ call'.op = "run"
           /\ call'.at >= start_time
           /\ panic' = "none")
             => response_time' = response_time]_vars

(***************************************************************************)
(* C3.  turnaround_time is assigned exactly once.  It is 0 in every state  *)
(* where the process is not Finished; it changes only in a step that moves *)
(* the process to Finished; and the dispatch that moves the process to     *)
(* Finished sets it to (at + consumed) - start_time, computed in u32       *)
(* arithmetic (the plain difference whenever at >= start_time).            *)
(***************************************************************************)
C3_TurnaroundAssignedOnce ==
    /\ [](state # "Finished" => turnaround_time = 0)
    /\ []((Dispatched /\ pre.state # "Finished" /\ state = "Finished")
             => /\ turnaround_time = Wrap(call.at + Consumed - start_time)
                /\ call.at >= start_time
                      => turnaround_time = call.at + Consumed - start_time
                /\ panic = "none" => Consumed = ret[1])
    /\ [][turnaround_time' # turnaround_time
             => (state # "Finished" /\ state' = "Finished")]_vars

\* A dispatch after the arrival time has finished the process.
C3_Witness ==
    /\ Succeeded
    /\ state = "Finished"
    /\ call.at > start_time
    /\ turnaround_time = call.at + ret[1] - start_time
    /\ turnaround_time > ret[1]

(***************************************************************************)
(* C4.  0 <= work_done <= workload in every state, no step decreases       *)
(* work_done, and a successful dispatch increases it by exactly the value  *)
(* it returns.                                                             *)
(***************************************************************************)
C4_WorkDoneMonotone ==
    /\ [](0 <= work_done /\ work_done <= workload)
    /\ [][work_done' >= work_done]_vars
    /\ [](Succeeded => work_done = pre.work_done + ret[1])

\* A dispatch has brought work_done from a positive value to workload.
C4_Witness ==
    /\ Succeeded
    /\ pre.work_done > 0
    /\ work_done = pre.work_done + ret[1]
    /\ work_done = workload

(***************************************************************************)
(* C5.  After every successful dispatch allotment is                       *)
(* max(0, allotment before - consumed); it is never negative and never     *)
(* above its value before the dispatch (no wrap-around).                   *)
(***************************************************************************)
C5_AllotmentFloored ==
    /\ allotment >= 0
    /\ Succeeded
          => /\ allotment = Max(0, pre.allotment - ret[1])
             /\ allotment <= pre.allotment

\* A dispatch consumed more than the allotment that was left.
C5_Witness ==
    /\ Succeeded
    /\ ret[1] > pre.allotment
    /\ allotment = 0

(***************************************************************************)
(* C6.  A dispatch of a Finished process panics and returns no value,      *)
(* whatever its arguments.                                                 *)
(***************************************************************************)
C6_FinishedDispatchPanics ==
    (Dispatched /\ pre.state = "Finished")
       => (panic # "none" /\ ret = << >>)

\* A Finished process was dispatched with a positive quantum, after its
\* arrival time.
C6_Witness ==
    /\ Dispatched
    /\ pre.state = "Finished"
    /\ call.quantum > 0
    /\ call.at >= start_time
    /\ panic = "finished"

(***************************************************************************)
(* C7.  The outcome of the most recent dispatch had the allotment before   *)
(* it been a.                                                              *)
(***************************************************************************)
WithAllotment(a) ==
    run([PreProcess EXCEPT !.allotment = a], call.quantum, call.at,
        call.queue)

\* The dispatches C7 is about: a process that is not Finished and has work
\* left, a positive quantum, a time not before the arrival.
C7_Case ==
    /\ Dispatched
    /\ pre.state # "Finished"
    /\ pre.work_done < workload
    /\ call.quantum > 0
    /\ call.at >= start_time

SameOutcome(r1, r2) ==
    /\ r1.ret = r2.ret
    /\ r1.self.state = r2.self.state
    /\ r1.self.work_done = r2.self.work_done
    /\ r1.self.next_schedule_time = r2.self.next_schedule_time

(***************************************************************************)
(* C7 as claimed.  The allotment is never read for a decision: in the case *)
(* above the dispatch does not panic (the process is not Finished and the  *)
(* unreachable branch is not hit) but returns, with the same consumed      *)
(* time, state, work_done and next_schedule_time for every allotment, 0    *)
(* included.                                                               *)
(***************************************************************************)
C7_AllotmentNeverRead ==
    C7_Case
       => /\ panic = "none"
          /\ \A a \in 0..(MaxAllotment + 1) :
                /\ WithAllotment(a).panic = "none"
                /\ SameOutcome(WithAllotment(a), WithAllotment(1))

(***************************************************************************)
(* C7 as amended.  In the same case the dispatch returns exactly when the  *)
(* allotment is positive, and then the consumed time, state, work_done and *)
(* next_schedule_time are the same for every positive allotment; with      *)
(* allotment 0 it panics on the assertion allotment > 0.                   *)
(***************************************************************************)
C7_AllotmentOnlyAsserted ==
    C7_Case
       => /\ pre.allotment > 0 => panic = "none"
          /\ pre.allotment = 0 => (panic = "allotment > 0" /\ ret = << >>)
          /\ WithAllotment(0).panic = "allotment > 0"
          /\ \A a \in 1..(MaxAllotment + 1) :
                /\ WithAllotment(a).panic = "none"
                /\ SameOutcome(WithAllotment(a), WithAllotment(1))
                /\ pre.allotment > 0
                      => SameOutcome(WithAllotment(a),
                                     [self |-> Process, ret |-> ret])

\* A process that has run before is dispatched with the allotment at 0.
C7_Witness ==
    /\ C7_Case
    /\ pre.state \in {"Running", "Blocked"}
    /\ pre.allotment = 0
    /\ panic = "allotment > 0"

(***************************************************************************)
(* C8.  A dispatch with a positive quantum of a process that is not        *)
(* Finished never fails the assertion run_time > 0, and the value it       *)
(* returns is positive.                                                    *)
(***************************************************************************)
C8_RunTimePositive ==
    (Dispatched /\ call.quantum > 0 /\ pre.state # "Finished")
       => /\ panic # "run_time > 0"
          /\ panic = "none" => ret[1] > 0

(***************************************************************************)
(* C9.  A successful dispatch prints exactly one outcome line, stamped     *)
(* at + consumed, whose kind matches the resulting state (with io_length   *)
(* when it blocked); before it one "start" line stamped at exactly when    *)
(* the process was Ready, one "resume" line stamped at exactly when it was *)
(* Blocked, and nothing when it was Running.                               *)
(***************************************************************************)
OutcomeLine ==
    Line(call.at + ret[1], call.queue, pid,
         CASE state = "Running" -> "ran"
           [] state = "Blocked" -> "ran_blocked"
           [] state = "Finished" -> "ran_finished",
         ret[1],
         IF state = "Blocked" THEN io_length ELSE 0)

C9_TraceLines ==
    Succeeded
       => /\ state \in {"Running", "Blocked", "Finished"}
          /\ pre.state = "Ready"
                => out = <<Line(call.at, call.queue, pid, "start", 0, 0),
                           OutcomeLine>>
          /\ pre.state = "Blocked"
                => out = <<Line(call.at, call.queue, pid, "resume", 0, 0),
                           OutcomeLine>>
          /\ pre.state = "Running" => out = <<OutcomeLine>>

\* A Blocked process was resumed and ran to the end of its workload.
C9_Witness ==
    /\ Succeeded
    /\ pre.state = "Blocked"
    /\ state = "Finished"
    /\ Len(out) = 2
    /\ out[1].kind = "resume"
    /\ out[2].kind = "ran_finished"
    /\ out[2].ts = call.at + ret[1]

(***************************************************************************)
(* C10.  In every state is_finished() is true exactly when the state is    *)
(* Finished and is_blocked() exactly when it is Blocked; they are never    *)
(* true together; a call of either returns that answer and changes no      *)
(* field of the process.                                                   *)
(***************************************************************************)
C10_QueriesReflectState ==
    /\ [](is_finished(Process) <=> state = "Finished")
    /\ [](is_blocked(Process) <=> state = "Blocked")
    /\ [](~(is_finished(Process) /\ is_blocked(Process)))
    /\ [](call.op = "is_finished" => ret = <<state = "Finished">>)
    /\ [](call.op = "is_blocked" => ret = <<state = "Blocked">>)
    /\ [][call'.op \in {"is_finished", "is_blocked"}
             => fields' = fields]_vars

\* is_blocked() was called on a process that a dispatch left Blocked.
C10_Witness ==
    /\ call.op = "is_blocked"
    /\ ret = <<TRUE>>
    /\ state = "Blocked"
    /\ ~is_finished(Process)
    /\ work_done > 0

(***************************************************************************)
(* The quantities run_from_running computes, taken before the most recent  *)
(* call.                                                                   *)
(***************************************************************************)
PreWorkLeft == workload - pre.work_done

\* Only used where io_interval > 0.
PreWorkBeforeIo == io_interval - (pre.work_done % io_interval)

\* The most recent call is a dispatch the driver was entitled to make as
\* far as the engine can tell: the process was not Finished and had work
\* left, the allotment and the quantum were positive, the time was not
\* before the arrival.
Entitled ==
    /\ Dispatched
    /\ pre.state # "Finished"
    /\ pre.work_done < workload
    /\ pre.allotment > 0
    /\ call.quantum > 0
    /\ call.at >= start_time

(***************************************************************************)
(* C11.  Case A.  When io_interval > 0, work_before_io < work_left and     *)
(* work_before_io <= quantum, a dispatch that returns consumes exactly     *)
(* work_before_io, sets next_schedule_time = at + io_length and leaves the *)
(* process Blocked; and an entitled dispatch does return.                  *)
(***************************************************************************)
C11_CaseA ==
    /\ io_interval > 0
    /\ PreWorkBeforeIo < PreWorkLeft
    /\ PreWorkBeforeIo <= call.quantum

C11_BlocksAtIoBoundary ==
    /\ (Succeeded /\ C11_CaseA)
          => /\ ret[1] = PreWorkBeforeIo
             /\ work_done = pre.work_done + PreWorkBeforeIo
             /\ next_schedule_time = call.at + io_length
             /\ state = "Blocked"
    /\ (Entitled /\ C11_CaseA) => panic = "none"

\* The scenario of the specification, scaled: io_interval 2, io_length 1,
\* workload 3, quantum 2, work_done 0.
C11_Witness ==
    /\ Succeeded
    /\ io_interval = 2 /\ io_length = 1 /\ workload = 3
    /\ call.quantum = 2
    /\ pre.work_done = 0
    /\ ret[1] = 2
    /\ state = "Blocked"
    /\ next_schedule_time = call.at + 1

(***************************************************************************)
(* C12.  Case B.  When Case A does not apply and work_left <= quantum, a   *)
(* dispatch that returns consumes exactly work_left, work_done becomes     *)
(* workload, next_schedule_time becomes u32::MAX and the state becomes     *)
(* Finished, also when the next I/O boundary is exactly the end of the     *)
(* workload; and an entitled dispatch does return.                         *)
(***************************************************************************)
C12_CaseB == ~C11_CaseA /\ PreWorkLeft <= call.quantum

C12_FinishesWithinQuantum ==
    /\ (Succeeded /\ C12_CaseB)
          => /\ ret[1] = PreWorkLeft
             /\ work_done = workload
             /\ next_schedule_time = U32_MAX
             /\ state = "Finished"
    /\ (Entitled /\ C12_CaseB) => panic = "none"

\* The I/O boundary coincides with the end of the workload: the process
\* finishes instead of blocking.
C12_Witness ==
    /\ Succeeded
    /\ io_interval > 0
    /\ PreWorkBeforeIo = PreWorkLeft
    /\ PreWorkLeft <= call.quantum
    /\ state = "Finished"
    /\ next_schedule_time = U32_MAX

(***************************************************************************)
(* C13.  Case C.  When neither Case A nor Case B applies, a dispatch that  *)
(* returns consumes exactly quantum, sets next_schedule_time =             *)
(* at + quantum, leaves the state Running (not Ready) and does not touch   *)
(* turnaround_time; and an entitled dispatch does return.                  *)
(***************************************************************************)
C13_CaseC == ~C11_CaseA /\ ~C12_CaseB

C13_UsesWholeQuantum ==
    /\ (Succeeded /\ C13_CaseC)
          => /\ ret[1] = call.quantum
             /\ work_done = pre.work_done + call.quantum
             /\ next_schedule_time = call.at + call.quantum
             /\ state = "Running"
             /\ turnaround_time = pre.turnaround_time
    /\ (Entitled /\ C13_CaseC) => panic = "none"

\* A process that was already Running used up another quantum.
C13_Witness ==
    /\ Succeeded
    /\ C13_CaseC
    /\ pre.state = "Running"
    /\ state = "Running"
    /\ ret[1] = call.quantum
    /\ next_schedule_time = call.at + call.quantum

(***************************************************************************)
(* C14.  A process with io_interval = 0 is never Blocked, and each of its  *)
(* dispatches that returns consumes min(quantum, workload - work_done),    *)
(* finishing exactly when the work left fits in the quantum.               *)
(***************************************************************************)
Min(a, b) == IF a <= b THEN a ELSE b

C14_NeverBlocksWithoutIo ==
    io_interval = 0
       => /\ state # "Blocked"
          /\ Succeeded
                => /\ ret[1] = Min(call.quantum, PreWorkLeft)
                   /\ state = IF PreWorkLeft <= call.quantum
                              THEN "Finished" ELSE "Running"

\* The scenario of the specification, scaled: workload 3, quantum 2,
\* start_time 0, contiguous dispatches; the second one, at time 2, consumes
\* the remaining 1 and finishes with turnaround_time 3.
C14_Witness ==
    /\ Succeeded
    /\ io_interval = 0 /\ workload = 3 /\ start_time = 0
    /\ call.quantum = 2 /\ call.at = 2
    /\ pre.work_done = 2
    /\ ret[1] = 1
    /\ state = "Finished"
    /\ turnaround_time = 3

(***************************************************************************)
(* C15.  The state only moves forward: once the process has left Ready no  *)
(* step brings it back; after a dispatch that returns the state is         *)
(* Running, Blocked or Finished; no step changes the state of a Finished   *)
(* process.                                                                *)
(***************************************************************************)
C15_StateMovesForward ==
    /\ [][state # "Ready" => state' # "Ready"]_vars
    /\ [](Succeeded => state \in {"Running", "Blocked", "Finished"})
    /\ [][state = "Finished" => state' = "Finished"]_vars

\* A Finished process was dispatched again and is still Finished.
C15_Witness ==
    /\ Dispatched
    /\ pre.state = "Finished"
    /\ state = "Finished"

(***************************************************************************)
(* C16.  After a dispatch that returns and leaves the process not Finished *)
(* next_schedule_time is not earlier than the end of that dispatch,        *)
(* at + consumed.                                                          *)
(***************************************************************************)
C16_NextScheduleNotBeforeEnd ==
    (Succeeded /\ state # "Finished")
       => next_schedule_time >= call.at + ret[1]

(***************************************************************************)
(* C18.  Whenever the state is Blocked, io_interval > 0 and work_done is a *)
(* positive multiple of io_interval below workload; and a dispatch that    *)
(* returns with the process Running has consumed less than the distance    *)
(* to the next multiple of io_interval above the work_done it started      *)
(* from.                                                                   *)
(***************************************************************************)
C18_BlockedAtIoBoundary ==
    /\ state = "Blocked"
          => /\ io_interval > 0
             /\ work_done > 0
             /\ work_done % io_interval = 0
             /\ work_done < workload
    /\ (Succeeded /\ state = "Running" /\ io_interval > 0)
          => work_done < pre.work_done + PreWorkBeforeIo

\* A process that had stopped short of an I/O boundary blocks at it.
C18_Witness ==
    /\ Succeeded
    /\ state = "Blocked"
    /\ io_interval = 2
    /\ pre.work_done = 1
    /\ work_done = 2

(***************************************************************************)
(* C19 as claimed.  A dispatch that panics leaves the process as it was    *)
(* before the call.                                                        *)
(***************************************************************************)
C19_AbortLeavesUnchanged ==
    (Dispatched /\ panic # "none") => Mutable(Process) = pre

(***************************************************************************)
(* C19 as amended.  A dispatch that panics on the assertion                *)
(* at >= start_time leaves the process as it was.  Every other panicking   *)
(* dispatch has recorded the response time first if it was still 0.  A     *)
(* dispatch of a Finished process changes nothing else.  A dispatch that   *)
(* panics on the assertion allotment > 0 has, besides, moved the state to  *)
(* Running and changed nothing else.                                       *)
(***************************************************************************)
ResponseTimeRecorded ==
    response_time = IF pre.response_time = 0
                    THEN call.at - start_time ELSE pre.response_time

C19_AbortLeavesPartialUpdate ==
    Dispatched
       => /\ panic = "at >= start_time" => Mutable(Process) = pre
          /\ panic \notin {"none", "at >= start_time"}
                => ResponseTimeRecorded
          /\ panic = "finished"
                => Mutable(Process)
                      = [pre EXCEPT !.response_time = response_time]
          /\ panic = "allotment > 0"
                => Mutable(Process)
                      = [pre EXCEPT !.response_time = response_time,
                                    !.state = "Running"]

\* A Finished process whose response time was still 0 was dispatched: the
\* call panicked and the response time changed.
C19_Witness ==
    /\ Dispatched
    /\ panic = "finished"
    /\ pre.response_time = 0
    /\ response_time > 0

(***************************************************************************)
(* C17.  When the driver has honoured the call contract (every dispatch at *)
(* or after the next_schedule_time of the process, which starts at         *)
(* start_time and is never before the previous dispatch, so that the       *)
(* dispatch times are non-decreasing and not before start_time), a process *)
(* that reaches Finished has turnaround_time >= response_time + workload.  *)
(***************************************************************************)
C17_TurnaroundCoversResponseAndWork ==
    (honoured /\ state = "Finished" /\ panic = "none")
       => turnaround_time >= response_time + workload

(***************************************************************************)
(* C20.  Termination.  Every dispatch of a process that is not Finished,   *)
(* made with allotment > 0, quantum > 0 and at a time not before           *)
(* start_time, makes progress: it returns and has increased work_done by   *)
(* at least 1, so that the process is Finished after at most workload      *)
(* dispatches.                                                             *)
(***************************************************************************)
C20_EveryDispatchProgresses ==
    (/\ Dispatched
     /\ pre.state # "Finished"
     /\ pre.allotment > 0
     /\ call.quantum > 0
     /\ call.at >= start_time)
       => /\ panic = "none"
          /\ work_done >= pre.work_done + 1
          /\ work_done <= workload

=============================================================================
